---- MODULE Spec2Model ----
(***************************************************************************)
(* Model of the resilient-routing decision support system:                 *)
(*   src/src/optimization.py  RouteOptimizer.solve / solve_greedy          *)
(*   src/src/simulation.py    WeatherService, LogisticsSimulator           *)
(*                                                                         *)
(* Units.  Travel times, windows, service time and the shift horizon are   *)
(* whole minutes (data_gen.py rounds the matrix to int).  The simulator    *)
(* multiplies a leg by 1.0, 1.25 or 1.6, so its clock is kept in ticks of  *)
(* 1/20 minute; costs are kept in thousandths of a currency unit           *)
(* (2.5 per minute = 125 thousandths per tick).  round(x, 2) is modelled   *)
(* on these fixed-point values.                                            *)
(***************************************************************************)
EXTENDS Integers, Sequences, FiniteSets, TLC

VARIABLES
    data,            \* the data model dict handed to RouteOptimizer / LogisticsSimulator
    g_pc,            \* solve_greedy: "idle", "outer", "scan", "done"
    routes,          \* solve_greedy: routes closed so far
    unvisited,       \* solve_greedy: set of customers not yet placed
    route,           \* solve_greedy: route under construction
    current_load,    \* solve_greedy: load of the route under construction
    current_time,    \* solve_greedy: estimated clock of the route under construction
    current_node,    \* solve_greedy: last node of the route under construction
    s_pc,            \* solve: "idle", "done"
    solution,        \* solve: self.solution (None or the NextVar assignment)
    routes_opt,      \* solve: the list returned by _extract_routes
    weather_service, \* WeatherService: storm_prob and rain_prob, in tenths
    draws,           \* the values random.random() yields, in tenths, as far as drawn
    rngPos,          \* how many values of the random stream have been consumed
    sims             \* the LogisticsSimulator objects (with their simpy environments)

greedyVars == <<g_pc, routes, unvisited, route, current_load, current_time,
                current_node>>
solveVars == <<s_pc, solution, routes_opt>>
simVars == <<weather_service, draws, rngPos, sims>>
vars == <<data, greedyVars, solveVars, simVars>>

----------------------------------------------------------------------------
(* Bounds of the model *)

MaxTravel == 2        \* travel minutes between two locations range over 1..MaxTravel
MaxDemand == 2        \* customer demands range over 1..MaxDemand
MaxVehicles == 2      \* num_vehicles ranges over 1..MaxVehicles
MaxRoutes == 4        \* solve_greedy opens at most this many routes in the model
LongHaul == 715       \* travel minutes of the far customers of the long-haul instances

(* Program constants *)

DayMinutes == 1440        \* slack and capacity of the 'Time' dimension
GreedyServiceStep == 10   \* the literal added to current_time in solve_greedy

Depot == 0
Customers == {1, 2}
Locs == {Depot} \cup Customers

Max2(a, b) == IF a >= b THEN a ELSE b
Min2(a, b) == IF a <= b THEN a ELSE b

RECURSIVE SeqSum(_)
SeqSum(s) == IF s = <<>> THEN 0 ELSE Head(s) + SeqSum(Tail(s))

Range(s) == {s[i] : i \in DOMAIN s}

----------------------------------------------------------------------------
(* Problem instances: the dict built by create_data_model *)

Matrix(a, b, c) ==
    [i \in Locs |-> [j \in Locs |->
        IF i = j THEN 0
        ELSE IF {i, j} = {0, 1} THEN a
        ELSE IF {i, j} = {0, 2} THEN b
        ELSE c]]

ServiceTimes == {5, 10, 15}
ShiftHorizons == {16, 30}
Capacities == {1, 2}

\* windows of customers 1 and 2: the whole shift, an early narrow window, a
\* window that is closed before any vehicle can reach the customer
WindowPairs(maxT) ==
    { <<<<0, maxT>>, <<0, maxT>>>>,
      <<<<1, 2>>, <<0, maxT>>>>,
      <<<<0, maxT>>, <<0, 0>>>> }

DataModel(tm, dem, tws, nv, cap, maxT, st) ==
    [time_matrix |-> tm,
     time_windows |-> tws,
     num_vehicles |-> nv,
     depot |-> Depot,
     demands |-> dem,
     vehicle_capacities |-> [v \in 1..nv |-> cap],
     max_time_minutes |-> maxT,
     service_time |-> st]

InstancesWith(maxT) ==
    { DataModel(Matrix(a, b, c),
                [l \in Locs |-> IF l = Depot THEN 0 ELSE IF l = 1 THEN d1 ELSE 1],
                [l \in Locs |-> IF l = Depot THEN <<0, maxT>> ELSE w[l]],
                nv, cap, maxT, st) :
        a \in 1..MaxTravel, b \in 1..MaxTravel, c \in {1, MaxTravel},
        d1 \in 1..MaxDemand, w \in WindowPairs(maxT),
        nv \in 1..MaxVehicles, cap \in Capacities, st \in ServiceTimes }

LocalInstances == UNION {InstancesWith(maxT) : maxT \in ShiftHorizons}

\* two far customers, a twelve-hour shift: the return leg nears the 24 h cap
LongHaulShift == 720

LongHaulInstances ==
    { DataModel(Matrix(LongHaul, LongHaul, 1),
                [l \in Locs |-> IF l = Depot THEN 0 ELSE 1],
                [l \in Locs |-> <<0, LongHaulShift>>],
                nv, 2, LongHaulShift, st) :
        nv \in 1..MaxVehicles, st \in ServiceTimes }

PlanInstances == LocalInstances \cup LongHaulInstances

----------------------------------------------------------------------------
(* RouteOptimizer.solve_greedy *)

Infinity == 1000000      \* float('inf')
None == 0                \* nearest = None (0 is the depot, never a candidate)

\* "for candidate in unvisited": the order in which the set is walked
RECURSIVE DescendingSeq(_)
DescendingSeq(S) ==
    IF S = {} THEN <<>>
    ELSE LET m == CHOOSE x \in S : \A y \in S : x >= y
         IN <<m>> \o DescendingSeq(S \ {m})

RECURSIVE AscendingSeq(_)
AscendingSeq(S) ==
    IF S = {} THEN <<>>
    ELSE LET m == CHOOSE x \in S : \A y \in S : x <= y
         IN <<m>> \o AscendingSeq(S \ {m})

\* line 154: "if current_load + demand > vehicle_capacity: continue"
CapacityCheckFailsNever(d, load, cand) == FALSE
CapacityCheckFails(d, load, cand) ==
    load + d.demands[cand] > d.vehicle_capacities[1]

\* line 158: "if current_time + dist_to + service_time + dist_back > max_time: continue"
TimeCheckWithWindow(d, t, from, cand) ==
    \/ t + d.time_matrix[from][cand] + d.service_time
          + d.time_matrix[cand][d.depot] > d.max_time_minutes
    \/ t + d.time_matrix[from][cand] > d.time_windows[cand][2]
TimeCheckIgnoresReturn(d, t, from, cand) ==
    t + d.time_matrix[from][cand] + d.service_time > d.max_time_minutes
TimeCheckFails(d, t, from, cand) ==
    t + d.time_matrix[from][cand] + d.service_time
      + d.time_matrix[cand][d.depot] > d.max_time_minutes

\* lines 147-163: one pass of the candidate scan; the result is the pair
\* (nearest, min_dist) the loop ends with
RECURSIVE ScanCandidates(_, _, _, _, _, _)
ScanCandidates(d, cands, load, t, from, best) ==
    IF cands = <<>> THEN best
    ELSE LET candidate == Head(cands)
             dist_to == d.time_matrix[from][candidate]
             next == IF CapacityCheckFails(d, load, candidate) THEN best
                     ELSE IF TimeCheckFails(d, t, from, candidate) THEN best
                     ELSE IF dist_to < best.min_dist
                          THEN [nearest |-> candidate, min_dist |-> dist_to]
                          ELSE best
         IN ScanCandidates(d, Tail(cands), load, t, from, next)

ScanAll(d, unv, load, t, from) ==
    ScanCandidates(d, AscendingSeq(Customers), load, t, from,
                   [nearest |-> None, min_dist |-> Infinity])
Scan(d, unv, load, t, from) ==
    ScanCandidates(d, AscendingSeq(unv), load, t, from,
                   [nearest |-> None, min_dist |-> Infinity])

\* line 172: "current_time += min_dist + 10"
AdvanceTime(d, t, min_dist) == t + min_dist + GreedyServiceStep

GreedyStart ==
    /\ g_pc = "idle"
    /\ g_pc' = "outer"
    /\ routes' = <<>>
    /\ unvisited' = {l \in Locs : l >= 1}
    /\ UNCHANGED <<data, route, current_load, current_time, current_node, solveVars, simVars>>

\* "while unvisited:" entered: a fresh route opens at the depot
GreedyOpenRoute ==
    /\ g_pc = "outer"
    /\ unvisited # {}
    /\ Len(routes) < MaxRoutes
    /\ g_pc' = "scan"
    /\ route' = <<>>
    /\ current_load' = 0
    /\ current_time' = 0
    /\ current_node' = data.depot
    /\ UNCHANGED <<data, routes, unvisited, solveVars, simVars>>

\* "while unvisited:" left: return routes
GreedyReturn ==
    /\ g_pc = "outer"
    /\ unvisited = {}
    /\ g_pc' = "done"
    /\ UNCHANGED <<data, routes, unvisited, route, current_load, current_time,
                   current_node, solveVars, simVars>>

\* one pass of "while True" that finds a nearest eligible candidate
GreedyVisit ==
    /\ g_pc = "scan"
    /\ LET r == Scan(data, unvisited, current_load, current_time, current_node)
       IN /\ r.nearest # None
          /\ route' = Append(route, r.nearest)
          /\ unvisited' = unvisited \ {r.nearest}
          /\ current_load' = current_load + data.demands[r.nearest]
          /\ current_time' = AdvanceTime(data, current_time, r.min_dist)
          /\ current_node' = r.nearest
    /\ UNCHANGED <<data, g_pc, routes, solveVars, simVars>>

\* one pass of "while True" that finds none: break, routes.append(route)
GreedyCloseRoute ==
    /\ g_pc = "scan"
    /\ Scan(data, unvisited, current_load, current_time, current_node).nearest = None
    /\ routes' = Append(routes, route)
    /\ g_pc' = "outer"
    /\ UNCHANGED <<data, unvisited, route, current_load, current_time,
                   current_node, solveVars, simVars>>

NextGreedy ==
    \/ GreedyStart
    \/ GreedyOpenRoute
    \/ GreedyReturn
    \/ GreedyVisit
    \/ GreedyCloseRoute

----------------------------------------------------------------------------
(* RouteOptimizer.solve: the routing model handed to the OR-Tools solver *)

\* a route of one vehicle: customers, each at most once
RECURSIVE Perms(_)
Perms(S) ==
    IF S = {} THEN {<<>>}
    ELSE UNION {{<<x>> \o p : p \in Perms(S \ {x})} : x \in S}

RoutesOver(S) == UNION {Perms(T) : T \in SUBSET S}

\* RoutingModel without disjunctions: every customer is on exactly one vehicle
AssignmentsOptional(d) ==
    { rs \in [1..d.num_vehicles -> RoutesOver(Customers)] :
        /\ \A c \in Customers :
             Cardinality({v \in 1..d.num_vehicles : c \in Range(rs[v])}) <= 1 }
Assignments(d) ==
    { rs \in [1..d.num_vehicles -> RoutesOver(Customers)] :
        /\ \A c \in Customers :
             Cardinality({v \in 1..d.num_vehicles : c \in Range(rs[v])}) = 1 }

\* time_callback (lines 32-44)
TransitTimeNoService(d, from_node, to_node) == d.time_matrix[from_node][to_node]
TransitTime(d, from_node, to_node) ==
    d.time_matrix[from_node][to_node]
      + (IF from_node # d.depot THEN d.service_time ELSE 0)

\* the upper bound of the 'Time' dimension at the end of a route (AddDimension,
\* lines 59-65: capacity 1440 on every cumul variable)
EndCumulUnbounded(d) == Infinity
EndCumulMax(d) == DayMinutes

\* CumulVar(index).SetRange(start, end) of a customer (lines 69-73), within the
\* dimension's capacity
CumulRangeNoWindow(d, node) == <<0, DayMinutes>>
CumulRange(d, node) ==
    <<Max2(d.time_windows[node][1], 0), Min2(d.time_windows[node][2], DayMinutes)>>

\* CumulVar(Start(v)).SetRange(time_windows[depot][0], 1440) (lines 77-80)
StartCumulMin(d) == Max2(d.time_windows[d.depot][1], 0)

Infeasible == -1

\* Propagation of the 'Time' dimension along a route: the smallest cumul value
\* at the end node, or Infeasible.  cumul(next) = cumul(prev) + transit + slack,
\* slack in 0..1440.
RECURSIVE EarliestEnd(_, _, _, _, _)
EarliestEnd(d, r, k, prev, cumul) ==
    IF k > Len(r)
    THEN LET e == cumul + TransitTime(d, prev, d.depot)
         IN IF e <= EndCumulMax(d) THEN e ELSE Infeasible
    ELSE LET n == r[k]
             rng == CumulRange(d, n)
             arr == Max2(rng[1], cumul + TransitTime(d, prev, n))
         IN IF arr > rng[2] THEN Infeasible
            ELSE EarliestEnd(d, r, k + 1, n, arr)

TimeDimensionOK(d, r) ==
    /\ StartCumulMin(d) <= DayMinutes
    /\ EarliestEnd(d, r, 1, d.depot, StartCumulMin(d)) # Infeasible

\* demand_callback and AddDimensionWithVehicleCapacity (lines 83-94)
RouteDemand(d, r) == SeqSum([i \in DOMAIN r |-> d.demands[r[i]]])

CapacityDimensionOK(d, r, v) ==
    d.demands[d.depot] + RouteDemand(d, r) <= d.vehicle_capacities[v]

FeasibleAssignments(d) ==
    { rs \in Assignments(d) :
        \A v \in 1..d.num_vehicles :
            TimeDimensionOK(d, rs[v]) /\ CapacityDimensionOK(d, rs[v], v) }

\* SetFixedCostOfAllVehicles(100000): the cost of every vehicle that is used
VehicleFixedCost == 100000

\* SetArcCostEvaluatorOfAllVehicles(transit_callback_index): the arc costs of a
\* route, depot to depot
RECURSIVE ArcCost(_, _, _, _)
ArcCost(d, r, k, prev) ==
    IF k > Len(r) THEN TransitTime(d, prev, d.depot)
    ELSE TransitTime(d, prev, r[k]) + ArcCost(d, r, k + 1, r[k])

\* the objective of an assignment: arc costs plus the fixed cost of used vehicles
Objective(d, rs) ==
    SeqSum([v \in 1..d.num_vehicles |->
               IF rs[v] = <<>> THEN 0
               ELSE VehicleFixedCost + ArcCost(d, rs[v], 1, d.depot)])

\* The solution object: NextVar of every start and customer index.  Indices are
\* <<"start", v>>, <<"node", c>>, <<"end", v>>.
NoSolution == [found |-> FALSE, next |-> <<>>]
StartIdx(v) == <<"start", v>>
EndIdx(v) == <<"end", v>>
NodeIdx(c) == <<"node", c>>

NextVarOf(d, rs) ==
  [found |-> TRUE, next |->
    [idx \in {StartIdx(v) : v \in 1..d.num_vehicles} \cup {NodeIdx(c) : c \in Customers} |->
        IF idx[1] = "start"
        THEN (IF rs[idx[2]] = <<>> THEN EndIdx(idx[2]) ELSE NodeIdx(rs[idx[2]][1]))
        ELSE LET v == CHOOSE w \in 1..d.num_vehicles : idx[2] \in Range(rs[w])
                 k == CHOOSE i \in DOMAIN rs[v] : rs[v][i] = idx[2]
             IN IF k = Len(rs[v]) THEN EndIdx(v) ELSE NodeIdx(rs[v][k + 1])]]

\* manager.IndexToNode
IndexToNode(d, idx) == IF idx[1] = "node" THEN idx[2] ELSE d.depot

\* _extract_routes, the walk of one vehicle (lines 117-124)
RECURSIVE WalkRouteKeepDepot(_, _, _, _)
WalkRouteKeepDepot(d, sol, index, acc) ==
    IF index[1] = "end" THEN acc
    ELSE WalkRouteKeepDepot(d, sol, sol.next[index], Append(acc, IndexToNode(d, index)))

RECURSIVE WalkRoute(_, _, _, _)
WalkRoute(d, sol, index, acc) ==
    IF index[1] = "end" THEN acc
    ELSE LET node_index == IndexToNode(d, index)
             acc2 == IF node_index # d.depot THEN Append(acc, node_index) ELSE acc
         IN WalkRoute(d, sol, sol.next[index], acc2)

\* _extract_routes (lines 108-125)
ExtractRoutesPerVehicle(d, sol) ==
    [v \in 1..d.num_vehicles |->
        IF sol.found THEN WalkRoute(d, sol, StartIdx(v), <<>>) ELSE <<>>]
ExtractRoutes(d, sol) ==
    IF ~sol.found THEN <<>>
    ELSE [v \in 1..d.num_vehicles |-> WalkRoute(d, sol, StartIdx(v), <<>>)]

\* solve(): SolveWithParameters returns an assignment that satisfies the model;
\* which one is the search's choice
SolveFound ==
    /\ s_pc = "idle"
    /\ \E rs \in FeasibleAssignments(data) :
         /\ solution' = NextVarOf(data, rs)
         /\ routes_opt' = ExtractRoutes(data, solution')
    /\ s_pc' = "done"
    /\ UNCHANGED <<data, greedyVars, simVars>>

\* solve(): SolveWithParameters returns None (no assignment found in the budget)
SolveNone ==
    /\ s_pc = "idle"
    /\ solution' = NoSolution
    /\ routes_opt' = ExtractRoutes(data, solution')
    /\ s_pc' = "done"
    /\ UNCHANGED <<data, greedyVars, simVars>>

NextSolve == SolveFound \/ SolveNone

----------------------------------------------------------------------------
(* WeatherService *)

MaxDraw == 2              \* random.random() ranges over 0..MaxDraw tenths

\* WeatherService(storm_prob, rain_prob), probabilities in tenths
DefaultWeather == [storm_prob |-> 1, rain_prob |-> 1]

TicksPerMinute == 20      \* the clock counts 1/20 minute

\* STATES (lines 17-21): travel_time_factor, in ticks per base minute
TravelTimeFactor(name) ==
    IF name = "Ensolarado" THEN 20
    ELSE IF name = "Chuva Leve" THEN 25
    ELSE 32

\* get_current_weather (lines 35-41) for the value r of random.random()
WeatherAlwaysSunny(ws, r) == "Ensolarado"
WeatherFor(ws, r) ==
    IF r < ws.storm_prob THEN "Tempestade Severa"
    ELSE IF r < ws.storm_prob + ws.rain_prob THEN "Chuva Leve"
    ELSE "Ensolarado"

----------------------------------------------------------------------------
(* LogisticsSimulator on a simpy.Environment *)

Sims == {1, 2}

URGENT == 0               \* simpy priority of a process's Initialize event
NORMAL == 1               \* simpy priority of Timeout and Process events

OvertimeMilliPerTick == 125   \* OVERTIME_RATE_PER_MIN = 2.5 per minute, in thousandths per tick

\* LogisticsSimulator.__init__ (lines 48-55) with a fresh simpy.Environment
NewSimulator(rs) ==
    [pc |-> "new", routes |-> rs, now |-> 0, queue |-> {}, eid |-> 0,
     procs |-> [i \in DOMAIN rs |-> [pc |-> "unborn", k |-> 0, current_node |-> Depot,
                                      weather |-> "Ensolarado", base |-> 0, actual |-> 0]],
     logs |-> <<>>, total_overtime_cost |-> 0, startPos |-> 0]

\* Environment.schedule: heappush (now + delay, priority, eid, event)
Schedule(sm, prio, delay, veh, kind) ==
    [sm EXCEPT !.queue = @ \cup {[time |-> sm.now + delay, prio |-> prio,
                                  eid |-> sm.eid, veh |-> veh, kind |-> kind]},
               !.eid = @ + 1]

Before(e, f) ==
    \/ e.time < f.time
    \/ e.time = f.time /\ e.prio < f.prio
    \/ e.time = f.time /\ e.prio = f.prio /\ e.eid < f.eid

\* Environment.step: heappop, the entry smallest by (time, priority, eid)
NextEventsAnyOrder(q) == q
NextEventsIgnoringEid(q) == {e \in q : \A f \in q : e.time <= f.time}
NextEvents(q) == {e \in q : \A f \in q \ {e} : Before(e, f)}

\* round(x, 2) of a time kept in ticks: ticks are 0.05, so the value is exact
RoundTicks(t) == t * 5

\* round(x, 2) of a cost kept in thousandths: to the nearest hundredth, a tie to
\* the even one
RoundCostOneDecimal(c) == ((c + 50) \div 100) * 10
RoundCost(c) ==
    LET q == c \div 10
        r == c % 10
    IN IF r < 5 THEN q
       ELSE IF r > 5 THEN q + 1
       ELSE IF q % 2 = 0 THEN q ELSE q + 1

\* lines 92-94 / 128-130: the cost of an arrival (in ticks) against a bound (in
\* minutes), in thousandths
OvertimeCostFlat(arrival, bound) ==
    IF arrival > bound * TicksPerMinute THEN OvertimeMilliPerTick ELSE 0
OvertimeCostSigned(arrival, bound) ==
    (arrival - bound * TicksPerMinute) * OvertimeMilliPerTick
OvertimeCost(arrival, bound) ==
    IF arrival > bound * TicksPerMinute
    THEN (arrival - bound * TicksPerMinute) * OvertimeMilliPerTick
    ELSE 0

\* lines 91 / 127: the bound an arrival is compared with
BoundFor(d, node) ==
    IF node = d.depot THEN d.max_time_minutes ELSE d.time_windows[node][2]

\* lines 79-98 / 115-134: the log entry of an arrival, overtime cost included
LogEntryFromDepot(d, sm, veh, to) ==
    LET p == sm.procs[veh]
    IN [Veiculo |-> veh, De |-> d.depot, Para |-> to, Clima |-> p.weather,
        TempoBase |-> p.base,
        TempoReal |-> RoundTicks(p.actual),
        HoraChegada |-> RoundTicks(sm.now),
        Atraso |-> RoundTicks(p.actual - p.base * TicksPerMinute),
        CustoHoraExtra |-> RoundCost(OvertimeCost(sm.now, BoundFor(d, to)))]
LogEntryFirstVehicle(d, sm, veh, to) ==
    LET p == sm.procs[veh]
    IN [Veiculo |-> 1, De |-> p.current_node, Para |-> to, Clima |-> p.weather,
        TempoBase |-> p.base,
        TempoReal |-> RoundTicks(p.actual),
        HoraChegada |-> RoundTicks(sm.now),
        Atraso |-> RoundTicks(p.actual - p.base * TicksPerMinute),
        CustoHoraExtra |-> RoundCost(OvertimeCost(sm.now, BoundFor(d, to)))]
LogEntry(d, sm, veh, to) ==
    LET p == sm.procs[veh]
    IN [Veiculo |-> veh, De |-> p.current_node, Para |-> to, Clima |-> p.weather,
        TempoBase |-> p.base,
        TempoReal |-> RoundTicks(p.actual),
        HoraChegada |-> RoundTicks(sm.now),
        Atraso |-> RoundTicks(p.actual - p.base * TicksPerMinute),
        CustoHoraExtra |-> RoundCost(OvertimeCost(sm.now, BoundFor(d, to)))]

\* lines 66-75 / 108-112: base time, weather draw r, timeout(actual_travel_time)
BeginLegWaits(d, ws, sm, veh, from, to, k, r, pcAfter) ==
    LET w == WeatherFor(ws, r)
        base == d.time_matrix[from][to]
        actual == base * TravelTimeFactor(w)
        sm2 == [sm EXCEPT !.procs[veh] =
                    [pc |-> pcAfter, k |-> k, current_node |-> from,
                     weather |-> w, base |-> base, actual |-> actual]]
    IN Schedule(sm2, NORMAL,
                Max2(actual, d.time_windows[to][1] * TicksPerMinute - sm.now),
                veh, "Timeout")
BeginLeg(d, ws, sm, veh, from, to, k, r, pcAfter) ==
    LET w == WeatherFor(ws, r)
        base == d.time_matrix[from][to]
        actual == base * TravelTimeFactor(w)
        sm2 == [sm EXCEPT !.procs[veh] =
                    [pc |-> pcAfter, k |-> k, current_node |-> from,
                     weather |-> w, base |-> base, actual |-> actual]]
    IN Schedule(sm2, NORMAL, actual, veh, "Timeout")

\* the leg a process starts from node `from` once k - 1 stops are behind it
NextLeg(d, ws, sm, veh, from, k, r) ==
    IF k <= Len(sm.routes[veh])
    THEN BeginLeg(d, ws, sm, veh, from, sm.routes[veh][k], k, r, "travel")
    ELSE BeginLeg(d, ws, sm, veh, from, d.depot, k, r, "return")

\* random.random(): the next value of the stream
Draw(r) ==
    /\ IF rngPos < Len(draws)
       THEN r = draws[rngPos + 1] /\ draws' = draws
       ELSE draws' = Append(draws, r)
    /\ rngPos' = rngPos + 1

Popped(sm, ev) == [sm EXCEPT !.queue = @ \ {ev}, !.now = ev.time]

RECURSIVE RegisterAllEvenEmpty(_, _)
RegisterAllEvenEmpty(sm, i) ==
    IF i > Len(sm.routes) THEN sm
    ELSE RegisterAllEvenEmpty(Schedule([sm EXCEPT !.procs[i].pc = "start"],
                                       URGENT, 0, i, "Initialize"), i + 1)

RECURSIVE RegisterAll(_, _)
RegisterAll(sm, i) ==
    IF i > Len(sm.routes) THEN sm
    ELSE IF sm.routes[i] # <<>>
         THEN RegisterAll(Schedule([sm EXCEPT !.procs[i].pc = "start"],
                                   URGENT, 0, i, "Initialize"), i + 1)
         ELSE RegisterAll(sm, i + 1)

\* run(), lines 140-142: env.process(self.drive(i, route)) for every non-empty route
SimRun(s) ==
    /\ sims[s].pc = "new"
    /\ sims' = [sims EXCEPT ![s] =
                  [RegisterAll(sims[s], 1) EXCEPT !.pc = "running", !.startPos = rngPos]]
    /\ UNCHANGED <<data, greedyVars, solveVars, weather_service, draws, rngPos>>

\* drive() starts: lines 61-75, up to the first yield
SimStart(s) ==
    /\ sims[s].pc = "running"
    /\ \E ev \in NextEvents(sims[s].queue), r \in 0..MaxDraw :
         /\ ev.kind = "Initialize"
         /\ Draw(r)
         /\ sims' = [sims EXCEPT ![s] =
                       NextLeg(data, weather_service, Popped(sims[s], ev), ev.veh,
                               data.depot, 1, r)]
    /\ UNCHANGED <<data, greedyVars, solveVars, weather_service>>

\* drive() resumes after the travel timeout of a customer leg: lines 76-102
SimArrive(s) ==
    /\ sims[s].pc = "running"
    /\ \E ev \in NextEvents(sims[s].queue) :
         /\ ev.kind = "Timeout"
         /\ sims[s].procs[ev.veh].pc = "travel"
         /\ LET sm == Popped(sims[s], ev)
                p == sm.procs[ev.veh]
                next_node == sm.routes[ev.veh][p.k]
                cost == OvertimeCost(sm.now, BoundFor(data, next_node))
                sm2 == [sm EXCEPT !.logs = Append(@, LogEntry(data, sm, ev.veh, next_node)),
                                  !.total_overtime_cost = @ + cost,
                                  !.procs[ev.veh].pc = "service"]
            IN sims' = [sims EXCEPT ![s] =
                          Schedule(sm2, NORMAL, data.service_time * TicksPerMinute,
                                   ev.veh, "Timeout")]
    /\ UNCHANGED <<data, greedyVars, solveVars, weather_service, draws, rngPos>>

\* drive() resumes after the service timeout: line 103, then the next leg (lines
\* 64-75) or the return leg (lines 107-112)
SimDepart(s) ==
    /\ sims[s].pc = "running"
    /\ \E ev \in NextEvents(sims[s].queue), r \in 0..MaxDraw :
         /\ ev.kind = "Timeout"
         /\ sims[s].procs[ev.veh].pc = "service"
         /\ Draw(r)
         /\ LET sm == Popped(sims[s], ev)
                p == sm.procs[ev.veh]
            IN sims' = [sims EXCEPT ![s] =
                          NextLeg(data, weather_service, sm, ev.veh,
                                  sm.routes[ev.veh][p.k], p.k + 1, r)]
    /\ UNCHANGED <<data, greedyVars, solveVars, weather_service>>

\* drive() resumes after the timeout of the return leg: lines 113-134; the
\* generator ends and simpy schedules the Process event
SimReturn(s) ==
    /\ sims[s].pc = "running"
    /\ \E ev \in NextEvents(sims[s].queue) :
         /\ ev.kind = "Timeout"
         /\ sims[s].procs[ev.veh].pc = "return"
         /\ LET sm == Popped(sims[s], ev)
                cost == OvertimeCost(sm.now, BoundFor(data, data.depot))
                sm2 == [sm EXCEPT !.logs = Append(@, LogEntry(data, sm, ev.veh, data.depot)),
                                  !.total_overtime_cost = @ + cost,
                                  !.procs[ev.veh].pc = "done"]
            IN sims' = [sims EXCEPT ![s] = Schedule(sm2, NORMAL, 0, ev.veh, "Process")]
    /\ UNCHANGED <<data, greedyVars, solveVars, weather_service, draws, rngPos>>

\* env.run() pops the Process event of a finished drive(): nothing waits on it
SimProcessEnd(s) ==
    /\ sims[s].pc = "running"
    /\ \E ev \in NextEvents(sims[s].queue) :
         /\ ev.kind = "Process"
         /\ sims' = [sims EXCEPT ![s] = Popped(sims[s], ev)]
    /\ UNCHANGED <<data, greedyVars, solveVars, weather_service, draws, rngPos>>

\* env.run() (line 144) runs until no event is left
QueueIgnored(sm) == TRUE
QueueEmpty(sm) == sm.queue = {}

\* env.run() finds the queue empty; run() returns the DataFrame of self.logs
\* (lines 144-149)
SimFinish(s) ==
    /\ sims[s].pc = "running"
    /\ QueueEmpty(sims[s])
    /\ sims' = [sims EXCEPT ![s].pc = "returned"]
    /\ UNCHANGED <<data, greedyVars, solveVars, weather_service, draws, rngPos>>

SimStep(s) ==
    \/ SimRun(s)
    \/ SimStart(s)
    \/ SimArrive(s)
    \/ SimDepart(s)
    \/ SimReturn(s)
    \/ SimProcessEnd(s)
    \/ SimFinish(s)

----------------------------------------------------------------------------
(* Inputs of a simulation *)

\* route sets over the customers: up to MaxVehicles routes, possibly empty, no
\* customer on two routes
RouteSets ==
    UNION { { rs \in [1..n -> RoutesOver(Customers)] :
                \A i, j \in 1..n : i # j => Range(rs[i]) \cap Range(rs[j]) = {} } :
            n \in 0..MaxVehicles }

SimTravelTimes == {1, 7}
SimShiftHorizons == {10, 60}

\* the window of customer 1 in a simulated instance: open for the whole shift,
\* or closing one minute after the start; customer 2 is open for the whole shift
SimWindows(maxT) == {<<0, maxT>>, <<0, 1>>}

SimInstancesWith(maxT) ==
    { DataModel(Matrix(a, b, 1),
                [l \in Locs |-> IF l = Depot THEN 0 ELSE 1],
                [l \in Locs |-> IF l = 1 THEN w1 ELSE <<0, maxT>>],
                MaxVehicles, 2, maxT, 5) :
        a \in 1..MaxTravel, b \in SimTravelTimes, w1 \in SimWindows(maxT) }

SimInstances == UNION {SimInstancesWith(maxT) : maxT \in SimShiftHorizons}

InitPlan ==
    /\ data \in PlanInstances
    /\ g_pc = "idle"
    /\ routes = <<>>
    /\ unvisited = {}
    /\ route = <<>>
    /\ current_load = 0
    /\ current_time = 0
    /\ current_node = Depot
    /\ s_pc = "idle"
    /\ solution = NoSolution
    /\ routes_opt = <<>>
    /\ weather_service = DefaultWeather
    /\ draws = <<>>
    /\ rngPos = 0
    /\ sims = [s \in Sims |-> NewSimulator(<<>>)]

NextPlan == NextGreedy \/ NextSolve

InitSim ==
    /\ data \in SimInstances
    /\ g_pc = "idle"
    /\ routes = <<>>
    /\ unvisited = {}
    /\ route = <<>>
    /\ current_load = 0
    /\ current_time = 0
    /\ current_node = Depot
    /\ s_pc = "idle"
    /\ solution = NoSolution
    /\ routes_opt = <<>>
    /\ weather_service = DefaultWeather
    /\ draws = <<>>
    /\ rngPos = 0
    /\ \E rs \in RouteSets : sims = [s \in Sims |-> NewSimulator(rs)]

NextSim == SimStep(1)

\* One simulation: LogisticsSimulator(env, data, routes, weather_service).run()
SpecSim == InitSim /\ [][NextSim]_vars

\* the caller seeds the random module again between two runs, so that the second
\* run reads the same stream of values
Reseed ==
    /\ sims[1].pc = "returned"
    /\ sims[2].pc = "new"
    /\ rngPos > 0
    /\ rngPos' = 0
    /\ UNCHANGED <<data, greedyVars, solveVars, weather_service, draws, sims>>

Reversed(rs) == [i \in DOMAIN rs |-> rs[Len(rs) + 1 - i]]

TwoRunInstances == {d \in SimInstances : d.time_matrix[0][2] = 7}

InitTwoRuns ==
    /\ data \in TwoRunInstances
    /\ g_pc = "idle"
    /\ routes = <<>>
    /\ unvisited = {}
    /\ route = <<>>
    /\ current_load = 0
    /\ current_time = 0
    /\ current_node = Depot
    /\ s_pc = "idle"
    /\ solution = NoSolution
    /\ routes_opt = <<>>
    /\ weather_service = DefaultWeather
    /\ draws = <<>>
    /\ rngPos = 0
    /\ \E rs1 \in RouteSets : \E rs2 \in {rs1, Reversed(rs1)} :
          sims = [s \in Sims |-> NewSimulator(IF s = 1 THEN rs1 ELSE rs2)]

\* the second run starts once the first has returned and the stream is at its
\* beginning again
SecondRun ==
    /\ sims[1].pc = "returned"
    /\ sims[2].pc = "new" => rngPos = 0
    /\ SimStep(2)

NextTwoRuns == SimStep(1) \/ Reseed \/ SecondRun

\* Two simulations one after the other, each on its own environment, both reading
\* the stream of the one random module from its beginning
SpecTwoRuns == InitTwoRuns /\ [][NextTwoRuns]_vars

\* The planning stage: solve() and solve_greedy() of one RouteOptimizer
Spec == InitPlan /\ [][NextPlan]_vars

----------------------------------------------------------------------------
(* Planning claims *)

Last(s) == s[Len(s)]

\* Execution of a route as planned: leave the depot at 0, drive every leg at its
\* matrix time, spend service_time at every stop, drive back to the depot
RECURSIVE ExecutedReturn(_, _, _, _, _)
ExecutedReturn(d, r, k, prev, t) ==
    IF k > Len(r) THEN t + d.time_matrix[prev][d.depot]
    ELSE ExecutedReturn(d, r, k + 1, r[k],
                        t + d.time_matrix[prev][r[k]] + d.service_time)

ReturnTime(d, r) == IF r = <<>> THEN 0 ELSE ExecutedReturn(d, r, 1, d.depot, 0)

\* A schedule for stops k.. of route r, the previous node left behind at time t
\* (its service included in the leg): arrival times inside the windows, each leg
\* at least travel + service of the node left, back at the depot by backBy
RECURSIVE ScheduleFrom(_, _, _, _, _, _)
ScheduleFrom(d, r, k, prev, t, backBy) ==
    LET svc == IF prev # d.depot THEN d.service_time ELSE 0
    IN IF k > Len(r)
       THEN t + d.time_matrix[prev][d.depot] + svc <= backBy
       ELSE \E a \in d.time_windows[r[k]][1]..d.time_windows[r[k]][2] :
                /\ a >= t + d.time_matrix[prev][r[k]] + svc
                /\ ScheduleFrom(d, r, k + 1, r[k], a, backBy)

HasSchedule(d, r, backBy) ==
    \E t0 \in d.time_windows[d.depot][1]..DayMinutes :
        ScheduleFrom(d, r, 1, d.depot, t0, backBy)

\* C1 (as claimed): solve_greedy terminates on every instance and leaves out the
\* customers no fresh vehicle can serve.  The outer loop can only end when a pass
\* leaves nothing to do, so once a fresh vehicle has found no eligible customer
\* (the route just closed is empty: every customer still unvisited is infeasible
\* for every fresh vehicle) the next step must be the return, not another route.
C1_GreedyDropsInfeasible ==
    [][(g_pc = "outer" /\ routes # <<>> /\ Last(routes) = <<>>) => g_pc' = "done"]_vars

\* C2: every route returned by solve() and by solve_greedy() carries a total
\* demand of at most the vehicle capacity, and the running load of the greedy
\* route under construction never exceeds the capacity.
C2_CapacityRespected ==
    /\ \A v \in DOMAIN routes_opt :
          RouteDemand(data, routes_opt[v]) <= data.vehicle_capacities[v]
    /\ \A i \in DOMAIN routes :
          RouteDemand(data, routes[i]) <= data.vehicle_capacities[1]
    /\ g_pc = "scan" =>
          /\ current_load = RouteDemand(data, route)
          /\ current_load <= data.vehicle_capacities[1]

\* both strategies have returned on an instance whose total demand does not fit
\* one vehicle, and both served the two customers on two routes
C2_Witness ==
    /\ g_pc = "done" /\ s_pc = "done" /\ solution.found
    /\ data.demands[1] + data.demands[2] > data.vehicle_capacities[1]
    /\ Cardinality({i \in DOMAIN routes : routes[i] # <<>>}) = 2
    /\ \A v \in DOMAIN routes_opt : Len(routes_opt[v]) = 1

\* C3: every route returned by solve() has a schedule that leaves the depot in
\* [depot earliest, 1440], advances on each leg by at least travel + service of
\* the node left (waiting allowed) and arrives at every stop inside its window.
C3_WindowsRespected ==
    \A v \in DOMAIN routes_opt : HasSchedule(data, routes_opt[v], Infinity)

\* solve() returned a route that visits the customer with the narrow early
\* window first and the other customer after it
C3_Witness ==
    /\ s_pc = "done" /\ solution.found
    /\ \E v \in DOMAIN routes_opt :
          /\ Len(routes_opt[v]) = 2
          /\ data.time_windows[routes_opt[v][1]] = <<1, 2>>
          /\ data.time_matrix[data.depot][routes_opt[v][1]] = 1

\* C4 (as claimed): every route returned by solve_greedy, executed from the depot
\* at time 0 with unperturbed travel times and the configured service_time at
\* each stop, is back at the depot no later than max_time_minutes.
C4_GreedyWithinShift ==
    \A i \in DOMAIN routes : ReturnTime(data, routes[i]) <= data.max_time_minutes

----------------------------------------------------------------------------
(* Simulation claims *)

\* the cost the claim computes for a logged event, in thousandths: (arrival -
\* bound) x 2.5 when the arrival is past the bound, arrival in hundredths of a
\* minute as logged
ClaimedCost(d, e) ==
    LET bound == (IF e.Para = d.depot THEN d.max_time_minutes
                  ELSE d.time_windows[e.Para][2]) * 100
    IN IF e.HoraChegada > bound THEN (e.HoraChegada - bound) * 25 ELSE 0

SumClaimedCost(d, log) == SeqSum([i \in DOMAIN log |-> ClaimedCost(d, log[i])])

Abs(x) == IF x < 0 THEN -x ELSE x

\* C6 (as claimed): for every logged event the overtime cost is (arrival - bound)
\* x 2.5 when arrival > bound and 0 otherwise; exactly that cost is added to
\* total_overtime_cost and recorded on the event.
C6_ExactCostRecorded ==
    \A s \in Sims :
        /\ sims[s].total_overtime_cost = SumClaimedCost(data, sims[s].logs)
        /\ \A i \in DOMAIN sims[s].logs :
              sims[s].logs[i].CustoHoraExtra * 10 = ClaimedCost(data, sims[s].logs[i])

\* C6 (amended): exactly that cost is added to total_overtime_cost; the event
\* records it rounded to two decimals, so the recorded value is within 0.005 of
\* the cost and equal to it when the cost has no third decimal.
C6_CostAddedAndRounded ==
    \A s \in Sims :
        /\ sims[s].total_overtime_cost = SumClaimedCost(data, sims[s].logs)
        /\ \A i \in DOMAIN sims[s].logs :
              Abs(sims[s].logs[i].CustoHoraExtra * 10
                    - ClaimedCost(data, sims[s].logs[i])) <= 5

\* a run has returned with a late arrival at a customer whose cost has a third
\* decimal, and a late return to the depot
C6_Witness ==
    /\ sims[1].pc = "returned"
    /\ \E i \in DOMAIN sims[1].logs :
          /\ sims[1].logs[i].Para # data.depot
          /\ ClaimedCost(data, sims[1].logs[i]) % 10 = 5
    /\ \E i \in DOMAIN sims[1].logs :
          /\ sims[1].logs[i].Para = data.depot
          /\ sims[1].logs[i].CustoHoraExtra > 0

\* C7: the log returned by run() is ordered by arrival time across all vehicles.
C7_LogTimeOrdered ==
    \A s \in Sims : \A i, j \in DOMAIN sims[s].logs :
        i < j => sims[s].logs[i].HoraChegada <= sims[s].logs[j].HoraChegada

\* a run has returned a log in which an event of vehicle 2 comes before an event
\* of vehicle 1 that arrived strictly later
C7_Witness ==
    /\ sims[1].pc = "returned"
    /\ \E i, j \in DOMAIN sims[1].logs :
          /\ i < j
          /\ sims[1].logs[i].Veiculo = 2 /\ sims[1].logs[j].Veiculo = 1
          /\ sims[1].logs[i].HoraChegada < sims[1].logs[j].HoraChegada

\* C8 (as claimed): events with equal arrival time appear in the log in
\* ascending vehicle-start order.
C8_TiesByVehicleOrder ==
    \A s \in Sims : \A i, j \in DOMAIN sims[s].logs :
        (i < j /\ sims[s].logs[i].HoraChegada = sims[s].logs[j].HoraChegada)
            => sims[s].logs[i].Veiculo <= sims[s].logs[j].Veiculo

\* the clock at which the leg of a logged event began
LegStart(e) == e.HoraChegada - e.TempoReal

\* C8 (amended): a tie between two arrivals is broken by the order in which their
\* travel timeouts were scheduled: the event whose leg began earlier is logged
\* first; vehicle-start order decides only between first legs out of the depot.
C8_TiesBySchedulingOrder ==
    \A s \in Sims : \A i, j \in DOMAIN sims[s].logs :
        (i < j /\ sims[s].logs[i].HoraChegada = sims[s].logs[j].HoraChegada)
            => /\ LegStart(sims[s].logs[i]) <= LegStart(sims[s].logs[j])
               /\ (sims[s].logs[i].De = data.depot /\ sims[s].logs[j].De = data.depot)
                     => sims[s].logs[i].Veiculo < sims[s].logs[j].Veiculo

\* a run has returned a log in which vehicle 2 is logged before vehicle 1 at the
\* same arrival time
C8_Witness ==
    /\ sims[1].pc = "returned"
    /\ \E i, j \in DOMAIN sims[1].logs :
          /\ i < j
          /\ sims[1].logs[i].HoraChegada = sims[1].logs[j].HoraChegada
          /\ sims[1].logs[i].Veiculo = 2 /\ sims[1].logs[j].Veiculo = 1

EventsOf(log, veh) == {i \in DOMAIN log : log[i].Veiculo = veh}

\* C9: run() does not stop before it returns, and when it returns every
\* non-empty route has its depot-return event, which is that vehicle's last.
C9_RunCompletes ==
    \A s \in Sims :
        /\ sims[s].pc = "running" => ENABLED SimStep(s)
        /\ sims[s].pc = "returned" =>
              \A veh \in DOMAIN sims[s].routes :
                  sims[s].routes[veh] # <<>> =>
                      \E i \in EventsOf(sims[s].logs, veh) :
                          /\ sims[s].logs[i].Para = data.depot
                          /\ \A j \in EventsOf(sims[s].logs, veh) : j <= i

\* a run over two non-empty routes has returned
C9_Witness ==
    /\ sims[1].pc = "returned"
    /\ Len(sims[1].routes) = 2
    /\ \A veh \in DOMAIN sims[1].routes : sims[1].routes[veh] # <<>>
    /\ Len(sims[1].logs) = 4

\* C10: two runs over the same route set and data model that read the same
\* sequence of weather draws return identical logs and total_overtime_cost.
C10_Deterministic ==
    (/\ sims[1].pc = "returned" /\ sims[2].pc = "returned"
     /\ sims[1].routes = sims[2].routes
     /\ sims[1].startPos = sims[2].startPos)
        => /\ sims[1].logs = sims[2].logs
           /\ sims[1].total_overtime_cost = sims[2].total_overtime_cost

\* two runs over the same two non-empty routes, the second after a reseed, have
\* returned, and two vehicles arrived at the same time
C10_Witness ==
    /\ sims[1].pc = "returned" /\ sims[2].pc = "returned"
    /\ sims[1].routes = sims[2].routes
    /\ sims[1].startPos = sims[2].startPos
    /\ \E i, j \in DOMAIN sims[2].logs :
          /\ i < j
          /\ sims[2].logs[i].HoraChegada = sims[2].logs[j].HoraChegada
          /\ sims[2].logs[i].Veiculo # sims[2].logs[j].Veiculo

\* the stops logged for vehicle veh, in log order
StopsLogged(log, veh) ==
    LET own == SelectSeq(log, LAMBDA e : e.Veiculo = veh)
    IN [i \in DOMAIN own |-> own[i].Para]

IsPrefix(p, q) == Len(p) <= Len(q) /\ \A i \in DOMAIN p : p[i] = q[i]

\* every event of the log belongs to a vehicle of the simulator's own route set,
\* and the stops logged for a vehicle follow that vehicle's own route
OwnEvents(d, sm) ==
    /\ \A i \in DOMAIN sm.logs : sm.logs[i].Veiculo \in DOMAIN sm.routes
    /\ \A veh \in DOMAIN sm.routes :
          IsPrefix(StopsLogged(sm.logs, veh), Append(sm.routes[veh], d.depot))

\* C11: two simulators on one WeatherService share neither log nor ledger: a step
\* of one run leaves the other simulator's logs and total_overtime_cost as they
\* were, and each log holds only events of its own simulator's routes.
C11_RunsIsolated ==
    /\ [](\A s \in Sims : OwnEvents(data, sims[s]))
    /\ [][\A s \in Sims : sims[s]' # sims[s] =>
             \A t \in Sims \ {s} :
                 /\ sims[t].logs' = sims[t].logs
                 /\ sims[t].total_overtime_cost' = sims[t].total_overtime_cost]_vars

\* both runs have returned, over different route sets, each with a log of four
\* events and the first with a cost on its ledger
C11_Witness ==
    /\ sims[1].pc = "returned" /\ sims[2].pc = "returned"
    /\ sims[1].routes # sims[2].routes
    /\ Len(sims[1].logs) = 4 /\ Len(sims[2].logs) = 4
    /\ sims[1].logs # sims[2].logs
    /\ sims[1].total_overtime_cost > 0

\* the bound a logged event was compared with, in hundredths of a minute
LoggedBound(d, e) ==
    (IF e.Para = d.depot THEN d.max_time_minutes ELSE d.time_windows[e.Para][2]) * 100

\* C12: total_overtime_cost is never negative and never decreases, and a step
\* raises it only by logging an event whose arrival is past its bound (the stop's
\* latest, or max_time_minutes for the return to the depot).
C12_CostMonotone ==
    /\ [](\A s \in Sims : sims[s].total_overtime_cost >= 0)
    /\ [][\A s \in Sims :
             /\ sims[s].total_overtime_cost' >= sims[s].total_overtime_cost
             /\ sims[s].total_overtime_cost' > sims[s].total_overtime_cost =>
                  /\ Len(sims[s].logs') = Len(sims[s].logs) + 1
                  /\ Last(sims[s].logs').HoraChegada
                       > LoggedBound(data, Last(sims[s].logs'))]_vars

\* a run has returned with a cost on its ledger, a late event in its log and,
\* after it, an event that arrived within its bound
C12_Witness ==
    /\ sims[1].pc = "returned"
    /\ sims[1].total_overtime_cost > 0
    /\ \E i, j \in DOMAIN sims[1].logs :
          /\ i < j
          /\ sims[1].logs[i].HoraChegada > LoggedBound(data, sims[1].logs[i])
          /\ sims[1].logs[j].HoraChegada < LoggedBound(data, sims[1].logs[j])

\* the two eligibility conditions of a candidate c for a vehicle with the given
\* load and clock standing at node `from`
Eligible(d, load, t, from, c) ==
    /\ load + d.demands[c] <= d.vehicle_capacities[1]
    /\ t + d.time_matrix[from][c] + d.service_time + d.time_matrix[c][d.depot]
         <= d.max_time_minutes

EligibleNow(c) == Eligible(data, current_load, current_time, current_node, c)

\* C13: the stop solve_greedy appends is an unvisited customer, eligible at the
\* moment of selection and nearest to the current node among the eligible
\* unvisited customers; a route is closed only when no unvisited customer is
\* eligible; every route starts at the depot with load 0 and time 0.
C13_GreedyNearestEligible ==
    [][/\ (g_pc = "scan" /\ route' # route) =>
            \E c \in unvisited :
                /\ route' = Append(route, c)
                /\ EligibleNow(c)
                /\ \A e \in unvisited :
                      EligibleNow(e) =>
                          data.time_matrix[current_node][c]
                              <= data.time_matrix[current_node][e]
       /\ (g_pc = "scan" /\ routes' # routes) =>
            \A c \in unvisited : ~EligibleNow(c)
       /\ (g_pc = "outer" /\ g_pc' = "scan") =>
            /\ route' = <<>>
            /\ current_load' = 0
            /\ current_time' = 0
            /\ current_node' = data.depot]_vars

\* solve_greedy has returned two routes: both customers were eligible for the
\* first vehicle, the nearer one was taken first, the route was closed with the
\* other customer still unvisited, and a second route served that one
C13_Witness ==
    /\ g_pc = "done"
    /\ routes = <<<<2>>, <<1>>>>
    /\ data.time_matrix[data.depot][2] < data.time_matrix[data.depot][1]
    /\ Eligible(data, 0, 0, data.depot, 1)
    /\ Eligible(data, 0, 0, data.depot, 2)

\* the eligible unvisited customers nearest to the current node
NearestEligible ==
    {c \in unvisited :
        /\ EligibleNow(c)
        /\ \A e \in unvisited :
              EligibleNow(e) =>
                  data.time_matrix[current_node][c] <= data.time_matrix[current_node][e]}

\* C14: among eligible candidates at the same minimum travel time the one with
\* the lowest index is appended, so every pass of the scan has one outcome: the
\* route grows by exactly that customer whenever some customer is eligible.
C14_TiesToLowestIndex ==
    [][(g_pc = "scan" /\ greedyVars' # greedyVars) =>
          IF NearestEligible = {}
          THEN route' = route
          ELSE \E c \in NearestEligible :
                  /\ \A e \in NearestEligible : c <= e
                  /\ route' = Append(route, c)]_vars

\* solve_greedy has returned, having taken customer 1 first from the depot when
\* customer 2 was eligible at the same travel time
C14_Witness ==
    /\ g_pc = "done"
    /\ routes # <<>> /\ routes[1] # <<>> /\ routes[1][1] = 1
    /\ data.time_matrix[data.depot][1] = data.time_matrix[data.depot][2]
    /\ Eligible(data, 0, 0, data.depot, 1)
    /\ Eligible(data, 0, 0, data.depot, 2)

\* the positions of customer c in the routes closed so far
PlacesOf(c) == {p \in (DOMAIN routes) \X (1..Cardinality(Customers)) :
                    p[2] <= Len(routes[p[1]]) /\ routes[p[1]][p[2]] = c}

\* customers whose window is closed before a vehicle leaving the depot at 0 can
\* be there
ClosedBeforeReach(d) ==
    {c \in Customers : d.time_windows[c][2] < d.time_matrix[d.depot][c]}

\* C15 (as claimed): when solve_greedy returns, a customer whose window closes
\* before it can be reached is on no route, and every other customer is served.
C15_GreedyDropsClosedWindow ==
    g_pc = "done" =>
        \A c \in Customers :
            IF c \in ClosedBeforeReach(data) THEN PlacesOf(c) = {}
            ELSE PlacesOf(c) # {}

\* C15 (amended): solve_greedy never reads the time windows.  A vehicle passes
\* over a customer only for capacity or duration: a route is closed empty only
\* when no unvisited customer is eligible for a fresh vehicle by those two tests;
\* and when solve_greedy returns, every customer, one whose window is closed
\* before it can be reached included, is on exactly one route.
C15_GreedyIgnoresWindows ==
    /\ g_pc = "done" => \A c \in Customers : Cardinality(PlacesOf(c)) = 1
    /\ \A i \in DOMAIN routes :
          routes[i] = <<>> =>
              \A c \in unvisited : ~Eligible(data, 0, 0, data.depot, c)

\* solve_greedy has returned a route that serves, after the other customer, the
\* customer whose window was closed before it could be reached
C15_Witness ==
    /\ g_pc = "done"
    /\ ClosedBeforeReach(data) = {2}
    /\ routes = <<<<1, 2>>>>

----------------------------------------------------------------------------
(* The pipeline of app.py on the reference instance: solve(), then one         *)
(* simulation of the routes it returned                                        *)

EndToEndMatrix ==
    [i \in Locs |-> [j \in Locs |->
        IF i = j THEN 0
        ELSE IF {i, j} = {0, 1} THEN 10
        ELSE IF {i, j} = {0, 2} THEN 20
        ELSE 15]]

\* depot + 2 customers, one vehicle of capacity 50, demands [0,5,5], windows
\* (0,480), max_time_minutes 480
EndToEndInstances ==
    { DataModel(EndToEndMatrix,
                [l \in Locs |-> IF l = Depot THEN 0 ELSE 5],
                [l \in Locs |-> <<0, 480>>],
                1, 50, 480, st) : st \in ServiceTimes }

\* WeatherService(storm_prob=0, rain_prob=0): every draw is 'Ensolarado'
ClearWeather == [storm_prob |-> 0, rain_prob |-> 0]

InitEndToEnd ==
    /\ data \in EndToEndInstances
    /\ g_pc = "idle"
    /\ routes = <<>>
    /\ unvisited = {}
    /\ route = <<>>
    /\ current_load = 0
    /\ current_time = 0
    /\ current_node = Depot
    /\ s_pc = "idle"
    /\ solution = NoSolution
    /\ routes_opt = <<>>
    /\ weather_service \in {ClearWeather, DefaultWeather}
    /\ draws = <<>>
    /\ rngPos = 0
    /\ sims = [s \in Sims |-> [NewSimulator(<<>>) EXCEPT !.pc = "unbuilt"]]

\* simulator_opt = LogisticsSimulator(env_opt, data_model, routes_opt, weather_service)
SimConstruct ==
    /\ s_pc = "done"
    /\ sims[1].pc = "unbuilt"
    /\ sims' = [sims EXCEPT ![1] = NewSimulator(routes_opt)]
    /\ UNCHANGED <<data, greedyVars, solveVars, weather_service, draws, rngPos>>

NextEndToEnd == NextSolve \/ SimConstruct \/ SimStep(1)

SpecEndToEnd == InitEndToEnd /\ [][NextEndToEnd]_vars

\* the base travel minutes of a route, depot to depot
RECURSIVE BaseTravel(_, _, _, _)
BaseTravel(d, r, k, prev) ==
    IF k > Len(r) THEN d.time_matrix[prev][d.depot]
    ELSE d.time_matrix[prev][r[k]] + BaseTravel(d, r, k + 1, r[k])

\* the feasible assignments of least objective
MinimalPlans(d) ==
    {rs \in FeasibleAssignments(d) :
        \A o \in FeasibleAssignments(d) : Objective(d, rs) <= Objective(d, o)}

AllSunny(log) == \A i \in DOMAIN log : log[i].Clima = "Ensolarado"

\* C16: on the reference instance every objective-minimal plan is one route that
\* visits both customers with 45 minutes of base travel; what solve() returns,
\* when it finds a solution, is such a plan; and a simulation of it in which
\* every leg ran at multiplier 1.0 ends with total_overtime_cost = 0.
C16_EndToEnd ==
    /\ MinimalPlans(data) # {}
    /\ \A rs \in MinimalPlans(data) :
          /\ Len(rs) = 1
          /\ Range(rs[1]) = Customers
          /\ BaseTravel(data, rs[1], 1, data.depot) = 45
    /\ (s_pc = "done" /\ solution.found) => routes_opt \in MinimalPlans(data)
    /\ (sims[1].pc = "returned" /\ solution.found /\ AllSunny(sims[1].logs)) =>
          /\ sims[1].routes = routes_opt
          /\ Len(sims[1].logs) = 3
          /\ sims[1].total_overtime_cost = 0

\* the plan [1, 2] has been simulated to the end under probabilities that allow
\* rain and storm, every leg in sunny weather
C16_Witness ==
    /\ sims[1].pc = "returned"
    /\ solution.found
    /\ routes_opt = <<<<1, 2>>>>
    /\ weather_service = DefaultWeather
    /\ AllSunny(sims[1].logs)
    /\ Len(sims[1].logs) = 3
    /\ sims[1].logs[3].HoraChegada = (45 + 2 * data.service_time) * 100

\* the positions of customer c in the routes returned by solve()
PlacesInPlan(c) == {p \in (DOMAIN routes_opt) \X (1..Cardinality(Customers)) :
                       p[2] <= Len(routes_opt[p[1]]) /\ routes_opt[p[1]][p[2]] = c}

\* C17: when the solver finds a solution, solve() returns exactly num_vehicles
\* routes, possibly empty; each lists only non-depot indices, in the order in
\* which the solution's NextVar chain visits them from the vehicle's start to
\* its end; and every customer is on exactly one route.
C17_ExtractWholePlan ==
    (s_pc = "done" /\ solution.found) =>
        /\ DOMAIN routes_opt = 1..data.num_vehicles
        /\ \A v \in DOMAIN routes_opt :
              LET r == routes_opt[v]
              IN /\ \A k \in DOMAIN r : r[k] \in Locs \ {data.depot}
                 /\ solution.next[StartIdx(v)] =
                        (IF r = <<>> THEN EndIdx(v) ELSE NodeIdx(r[1]))
                 /\ \A k \in DOMAIN r :
                        solution.next[NodeIdx(r[k])] =
                            (IF k = Len(r) THEN EndIdx(v) ELSE NodeIdx(r[k + 1]))
        /\ \A c \in Customers : Cardinality(PlacesInPlan(c)) = 1

\* solve() has returned a plan for two vehicles that leaves the first vehicle
\* at the depot and sends the second to customer 2 and then customer 1
C17_Witness ==
    /\ s_pc = "done" /\ solution.found
    /\ data.num_vehicles = 2
    /\ routes_opt = <<<<>>, <<2, 1>>>>

\* C18 (as claimed): the number of routes solve_greedy opens, the one under
\* construction included, never exceeds the instance's num_vehicles.
C18_GreedyWithinFleet ==
    Len(routes) + (IF g_pc = "scan" THEN 1 ELSE 0) <= data.num_vehicles

\* C19: when the solver finds no assignment, solve() returns the empty route
\* list; the call always has that way to return, an instance without any
\* feasible assignment included.
C19_NoSolutionEmptyList ==
    /\ (s_pc = "done" /\ ~solution.found) => routes_opt = <<>>
    /\ s_pc = "idle" => ENABLED NextSolve

\* solve() has returned on an instance that has no feasible assignment
C19_Witness ==
    /\ s_pc = "done"
    /\ ~solution.found
    /\ FeasibleAssignments(data) = {}
    /\ routes_opt = <<>>

----------------------------------------------------------------------------
(* WeatherService construction, followed by one simulation that draws from it *)

\* values of storm_prob and rain_prob handed to the constructor, in tenths
ProbTenths == {-1, 0, 1, 4, 5, 6, 10, 11}

\* no WeatherService constructed yet
NoWeatherService ==
    [state |-> "unbuilt", args |-> <<0, 0>>,
     storm_prob |-> 0, rain_prob |-> 0, sunny_prob |-> 0]

\* WeatherService.__init__ (lines 23-29): the attributes are assigned, then
\* ValueError is raised when sunny_prob < 0.  args keeps the values passed.
WeatherInitClamped(storm, rain) ==
    LET r == IF storm + rain > 10 THEN 10 - storm ELSE rain
    IN [state |-> "ok", args |-> <<storm, rain>>,
        storm_prob |-> storm, rain_prob |-> r, sunny_prob |-> 10 - (storm + r)]
WeatherInit(storm, rain) ==
    LET sunny_prob == 10 - (storm + rain)
    IN [state |-> IF sunny_prob < 0 THEN "raised" ELSE "ok",
        args |-> <<storm, rain>>,
        storm_prob |-> storm, rain_prob |-> rain, sunny_prob |-> sunny_prob]

WeatherConstruct ==
    /\ weather_service.state = "unbuilt"
    /\ \E storm \in ProbTenths, rain \in ProbTenths :
          weather_service' = WeatherInit(storm, rain)
    /\ UNCHANGED <<data, greedyVars, solveVars, draws, rngPos, sims>>

\* the simulation runs only with a WeatherService that was constructed
WeatherRun ==
    /\ weather_service.state = "ok"
    /\ SimStep(1)

InitWeather ==
    /\ data \in TwoRunInstances
    /\ g_pc = "idle"
    /\ routes = <<>>
    /\ unvisited = {}
    /\ route = <<>>
    /\ current_load = 0
    /\ current_time = 0
    /\ current_node = Depot
    /\ s_pc = "idle"
    /\ solution = NoSolution
    /\ routes_opt = <<>>
    /\ weather_service = NoWeatherService
    /\ draws = <<>>
    /\ rngPos = 0
    /\ sims = [s \in Sims |-> NewSimulator(<<<<1, 2>>>>)]

NextWeather == WeatherConstruct \/ WeatherRun

SpecWeather == InitWeather /\ [][NextWeather]_vars

\* C20: constructing the WeatherService fails exactly when storm_prob +
\* rain_prob > 1.0 (10 tenths); otherwise it succeeds and the object holds the
\* two probabilities as they were given.
C20_WeatherConstruction ==
    weather_service.state # "unbuilt" =>
        LET storm == weather_service.args[1]
            rain == weather_service.args[2]
        IN /\ weather_service.state = "raised" <=> storm + rain > 10
           /\ weather_service.state = "ok" =>
                 /\ weather_service.storm_prob = storm
                 /\ weather_service.rain_prob = rain

\* the constructor has raised on storm_prob 0.5 and rain_prob 0.6
C20_Witness ==
    /\ weather_service.state = "raised"
    /\ weather_service.args = <<5, 6>>

\* C21: a weather draw with random value r returns 'Tempestade Severa' (factor
\* 1.60) iff r < storm_prob, 'Chuva Leve' (1.25) iff storm_prob <= r <
\* storm_prob + rain_prob, and 'Ensolarado' (1.00) otherwise; the draw leaves the
\* WeatherService as it was.  With one vehicle the i-th logged leg used the i-th
\* value of the stream.
C21_WeatherPartition ==
    /\ [](\A i \in DOMAIN sims[1].logs :
             LET r == draws[sims[1].startPos + i]
                 e == sims[1].logs[i]
                 storm == weather_service.storm_prob
                 rain == weather_service.rain_prob
             IN /\ e.Clima \in {"Tempestade Severa", "Chuva Leve", "Ensolarado"}
                /\ e.Clima = "Tempestade Severa" <=> r < storm
                /\ e.Clima = "Chuva Leve" <=> (storm <= r /\ r < storm + rain)
                /\ e.Clima = "Tempestade Severa" => e.TempoReal = e.TempoBase * 160
                /\ e.Clima = "Chuva Leve" => e.TempoReal = e.TempoBase * 125
                /\ e.Clima = "Ensolarado" => e.TempoReal = e.TempoBase * 100)
    /\ [][weather_service.state = "ok" => weather_service' = weather_service]_vars

\* a run has returned whose three legs drew 0.0, 0.1 and 0.2 under storm_prob
\* 0.1 and rain_prob 0.1: a storm, rain at the first threshold, sun at the second
C21_Witness ==
    /\ sims[1].pc = "returned"
    /\ weather_service.state = "ok"
    /\ weather_service.args = <<1, 1>>
    /\ draws = <<0, 1, 2>>
    /\ Len(sims[1].logs) = 3

----------------------------------------------------------------------------
(* The value run() returns *)

\* the columns of the empty DataFrame (line 147), by the field names of LogEntry
EventColumns ==
    {"Veiculo", "De", "Para", "Clima", "TempoBase", "TempoReal", "HoraChegada",
     "Atraso", "CustoHoraExtra"}

\* run(), lines 146-149: the DataFrame returned, as its columns and its rows
RunResult(sm) ==
    IF sm.logs = <<>>
    THEN [columns |-> EventColumns, rows |-> <<>>]
    ELSE [columns |-> UNION {DOMAIN sm.logs[i] : i \in DOMAIN sm.logs},
          rows |-> sm.logs]

AllRoutesEmpty(sm) == \A veh \in DOMAIN sm.routes : sm.routes[veh] = <<>>

\* C22: on an empty route set, or one whose routes are all empty, run() goes
\* through without an event, returns an empty log that has the nine event
\* columns and leaves total_overtime_cost at 0; the columns are those of every
\* log run() returns.
C22_EmptyRouteSet ==
    \A s \in Sims :
        /\ AllRoutesEmpty(sims[s]) =>
              /\ sims[s].pc \in {"new", "running"} => ENABLED SimStep(s)
              /\ sims[s].pc = "running" => sims[s].queue = {}
              /\ sims[s].pc = "returned" =>
                    /\ RunResult(sims[s]).rows = <<>>
                    /\ sims[s].total_overtime_cost = 0
        /\ sims[s].pc = "returned" =>
              /\ Cardinality(RunResult(sims[s]).columns) = 9
              /\ \A i \in DOMAIN sims[s].logs :
                    DOMAIN sims[s].logs[i] = RunResult(sims[s]).columns

\* run() has returned on a route set of two empty routes
C22_Witness ==
    /\ sims[1].pc = "returned"
    /\ sims[1].routes = <<<<>>, <<>>>>
    /\ RunResult(sims[1]).rows = <<>>

\* the events logged for vehicle veh, in log order
EventsLogged(log, veh) == SelectSeq(log, LAMBDA e : e.Veiculo = veh)

\* the legs of a route: none for an empty route, else depot -> stops -> depot
LegsOf(d, r) ==
    IF r = <<>> THEN <<>>
    ELSE [k \in 1..(Len(r) + 1) |->
             [De |-> IF k = 1 THEN d.depot ELSE r[k - 1],
              Para |-> IF k > Len(r) THEN d.depot ELSE r[k]]]

\* legs a vehicle process is driving: drawn for, not yet logged
InFlight(sm) ==
    Cardinality({veh \in DOMAIN sm.procs : sm.procs[veh].pc \in {"travel", "return"}})

\* C23: one event per leg traversed and one weather draw per leg.  At any moment
\* the events of a vehicle are the first legs of its route, in order, each event
\* starting where the previous one ended, and the draws consumed are the events
\* logged plus the legs under way; when run() has returned, a route of k stops
\* has exactly its k + 1 events and an empty route has none and drew nothing.
C23_OneEventPerLeg ==
    \A s \in Sims :
        /\ \A veh \in DOMAIN sims[s].routes :
              LET own == EventsLogged(sims[s].logs, veh)
                  legs == LegsOf(data, sims[s].routes[veh])
              IN /\ Len(own) <= Len(legs)
                 /\ \A k \in DOMAIN own :
                       own[k].De = legs[k].De /\ own[k].Para = legs[k].Para
                 /\ sims[s].pc = "returned" => Len(own) = Len(legs)
        /\ \A i \in DOMAIN sims[s].logs : sims[s].logs[i].Veiculo \in DOMAIN sims[s].routes
        /\ sims[s].pc \in {"running", "returned"} =>
              rngPos - sims[s].startPos = Len(sims[s].logs) + InFlight(sims[s])

\* run() has returned on a route of two stops and an empty route: three events,
\* three draws
C23_Witness ==
    /\ sims[1].pc = "returned"
    /\ sims[1].routes = <<<<2, 1>>, <<>>>>
    /\ Len(sims[1].logs) = 3
    /\ rngPos - sims[1].startPos = 3

----------------------------------------------------------------------------
(* solve_greedy as a function of the data model *)

\* lines 132-177 run from the top: the loops of solve_greedy unfolded, pc telling
\* the loop whose test comes next.  The result holds the routes and whether the
\* call returned within MaxRoutes routes.
RECURSIVE GreedyFrom(_, _, _, _, _, _, _, _)
GreedyFrom(d, pc, unv, rts, rt, load, t, node) ==
    IF pc = "outer"
    THEN IF unv = {} THEN [returned |-> TRUE, routes |-> rts]
         ELSE IF Len(rts) >= MaxRoutes THEN [returned |-> FALSE, routes |-> rts]
         ELSE GreedyFrom(d, "scan", unv, rts, <<>>, 0, 0, d.depot)
    ELSE LET r == Scan(d, unv, load, t, node)
         IN IF r.nearest = None
            THEN GreedyFrom(d, "outer", unv, Append(rts, rt), rt, load, t, node)
            ELSE GreedyFrom(d, "scan", unv \ {r.nearest}, rts, Append(rt, r.nearest),
                            load + d.demands[r.nearest],
                            AdvanceTime(d, t, r.min_dist), r.nearest)

GreedyRoutes(d) ==
    GreedyFrom(d, "outer", {l \in DOMAIN d.time_matrix : l >= 1}, <<>>, <<>>, 0, 0, d.depot)

\* the data models that differ from d in their time_windows only
WindowVariants(d) ==
    { [d EXCEPT !.time_windows =
            [l \in Locs |-> IF l = d.depot THEN dw ELSE w[l]]] :
        w \in WindowPairs(d.max_time_minutes),
        dw \in {<<0, d.max_time_minutes>>, <<1, d.max_time_minutes>>} }

\* C24: solve_greedy never looks at a time window: the routes it has returned
\* are the routes it returns on every data model that differs in time_windows
\* only.
C24_GreedyWindowBlind ==
    g_pc = "done" =>
        /\ GreedyRoutes(data) = [returned |-> TRUE, routes |-> routes]
        /\ \A d2 \in WindowVariants(data) : GreedyRoutes(d2) = GreedyRoutes(data)

\* solve_greedy has returned a route that reaches customer 1 after its window
\* (1, 2) has closed; the data model has variants with other windows
C24_Witness ==
    /\ g_pc = "done"
    /\ routes = <<<<2, 1>>>>
    /\ data.time_windows[1] = <<1, 2>>
    /\ \E d2 \in WindowVariants(data) : d2.time_windows # data.time_windows

\* the sum of the overtime-cost fields of a log, in thousandths
LoggedCostSum(log) == SeqSum([i \in DOMAIN log |-> log[i].CustoHoraExtra * 10])

LateEvents(d, log) == {i \in DOMAIN log : ClaimedCost(d, log[i]) > 0}

\* C25 (as claimed): when run() has returned, the sum of the overtime-cost
\* fields of the logged events equals total_overtime_cost.
C25_TotalEqualsLoggedSum ==
    \A s \in Sims :
        sims[s].pc = "returned" =>
            LoggedCostSum(sims[s].logs) = sims[s].total_overtime_cost

\* C25 (amended): total_overtime_cost accumulates the unrounded costs while the
\* log holds each cost rounded to two decimals, so the sum of the logged fields
\* is within 0.005 per late event of total_overtime_cost, and equal to it when
\* no cost has a third decimal.
C25_TotalNearLoggedSum ==
    \A s \in Sims :
        LET log == sims[s].logs
            total == sims[s].total_overtime_cost
        IN /\ Abs(total - LoggedCostSum(log)) <= 5 * Cardinality(LateEvents(data, log))
           /\ (\A i \in DOMAIN log : ClaimedCost(data, log[i]) % 10 = 0) =>
                 total = LoggedCostSum(log)

\* run() has returned with two late events whose logged costs do not add up to
\* total_overtime_cost
C25_Witness ==
    /\ sims[1].pc = "returned"
    /\ Cardinality(LateEvents(data, sims[1].logs)) = 2
    /\ LoggedCostSum(sims[1].logs) # sims[1].total_overtime_cost

----------------------------------------------------------------------------
(* RealWorldVRPCreator.create_data_model *)

\* depot-to-customer travel minutes of the generated instances: the urban
\* friction alone, a customer near the end of a one-hour shift, one beyond it
GenTravelTimes == {3, 55, 65}
GenShiftHorizons == {60, 480}
GenServiceTimes == {10, 30}
GenDemands == {1, 9}

\* np.random.randint(low, high): a value of low..high-1; the model tries the
\* two ends and the middle
RandintChoices(low, high) == {low, (low + high - 1) \div 2, high - 1}

\* lines 224-235: the windows create_data_model can give a customer at
\* dist_from_depot minutes from the depot
WindowChoices(dist_from_depot, max_time_minutes, service_time) ==
    LET earliest_start == dist_from_depot
        computed == max_time_minutes - service_time - 30
        latest_start == IF computed < earliest_start THEN earliest_start + 10
                        ELSE computed
    IN {<<start, Min2(start + 180, max_time_minutes)>> :
           start \in RandintChoices(earliest_start,
                                    Max2(earliest_start + 1, latest_start))}

\* lines 216-217: locations and time matrix, before the dict is built
GeneratedLocations ==
    {[time_matrix |-> Matrix(a, b, 3),
      demands |-> [l \in Locs |-> IF l = Depot THEN 0 ELSE dem]] :
        a \in GenTravelTimes, b \in GenTravelTimes, dem \in GenDemands}

\* create_data_model(max_time_minutes, service_time, num_vehicles), lines 212-256
CreateDataModel ==
    /\ "time_windows" \notin DOMAIN data
    /\ \E max_time_minutes \in GenShiftHorizons, service_time \in GenServiceTimes,
          num_vehicles \in 1..MaxVehicles :
         \E w1 \in WindowChoices(data.time_matrix[0][1], max_time_minutes, service_time),
            w2 \in WindowChoices(data.time_matrix[0][2], max_time_minutes, service_time) :
            LET tws == [l \in Locs |-> IF l = Depot THEN <<0, max_time_minutes>>
                                       ELSE IF l = 1 THEN w1 ELSE w2]
            IN data' = DataModel(data.time_matrix, data.demands, tws, num_vehicles,
                                 50, max_time_minutes, service_time)
    /\ UNCHANGED <<greedyVars, solveVars, simVars>>

InitDataGen ==
    /\ data \in GeneratedLocations
    /\ g_pc = "idle"
    /\ routes = <<>>
    /\ unvisited = {}
    /\ route = <<>>
    /\ current_load = 0
    /\ current_time = 0
    /\ current_node = Depot
    /\ s_pc = "idle"
    /\ solution = NoSolution
    /\ routes_opt = <<>>
    /\ weather_service = DefaultWeather
    /\ draws = <<>>
    /\ rngPos = 0
    /\ sims = [s \in Sims |-> NewSimulator(<<>>)]

NextDataGen == CreateDataModel

SpecDataGen == InitDataGen /\ [][NextDataGen]_vars

\* C26 (as claimed): every data model create_data_model returns has, for every
\* customer, latest >= earliest.
C26_WindowsWellFormed ==
    "time_windows" \in DOMAIN data =>
        \A i \in Customers : data.time_windows[i][2] >= data.time_windows[i][1]

----------------------------------------------------------------------------
(* The pipeline of app.py on small instances: solve(), then one simulation of  *)
(* the routes it returned                                                      *)

\* windows of customers 1 and 2: the whole shift, an early narrow window for
\* customer 1, a window of customer 1 that opens after a vehicle can be there
PlanRunWindows(maxT) ==
    { <<<<0, maxT>>, <<0, maxT>>>>,
      <<<<1, 2>>, <<0, maxT>>>>,
      <<<<5, maxT>>, <<0, maxT>>>> }

PlanRunInstancesWith(maxT) ==
    { DataModel(Matrix(a, b, c),
                [l \in Locs |-> IF l = Depot THEN 0 ELSE 1],
                [l \in Locs |-> IF l = Depot THEN <<0, maxT>> ELSE w[l]],
                nv, 2, maxT, st) :
        a \in 1..MaxTravel, b \in 1..MaxTravel, c \in {1},
        w \in PlanRunWindows(maxT), nv \in 1..MaxVehicles, st \in {5, 15} }

PlanRunInstances == UNION {PlanRunInstancesWith(maxT) : maxT \in ShiftHorizons}

InitPlanRun ==
    /\ data \in PlanRunInstances
    /\ g_pc = "idle"
    /\ routes = <<>>
    /\ unvisited = {}
    /\ route = <<>>
    /\ current_load = 0
    /\ current_time = 0
    /\ current_node = Depot
    /\ s_pc = "idle"
    /\ solution = NoSolution
    /\ routes_opt = <<>>
    /\ weather_service = DefaultWeather
    /\ draws = <<>>
    /\ rngPos = 0
    /\ sims = [s \in Sims |-> [NewSimulator(<<>>) EXCEPT !.pc = "unbuilt"]]

SpecPlanRun == InitPlanRun /\ [][NextEndToEnd]_vars

\* the smallest value the 'Time' dimension allows for the cumul variable of the
\* k-th stop of route r (k = 0: the start of the vehicle)
RECURSIVE PlannedArrival(_, _, _)
PlannedArrival(d, r, k) ==
    IF k = 0 THEN StartCumulMin(d)
    ELSE Max2(CumulRange(d, r[k])[1],
              PlannedArrival(d, r, k - 1)
                + TransitTime(d, IF k = 1 THEN d.depot ELSE r[k - 1], r[k]))

\* C27: for routes returned by solve() (depot window from 0, service_time in the
\* data model), a vehicle whose legs so far all ran at multiplier 1.0 reaches a
\* customer stop no later than the planned cumulative time of that stop, which
\* is no later than the stop's latest bound, so the event carries no overtime
\* cost; only the return to the depot can carry one.
C27_PlanExecutionConsistent ==
    (solution.found /\ sims[1].pc \in {"running", "returned"}) =>
        \A veh \in DOMAIN sims[1].routes :
            LET own == EventsLogged(sims[1].logs, veh)
                r == routes_opt[veh]
            IN \A k \in DOMAIN own :
                  (own[k].Para # data.depot /\ \A j \in 1..k : own[j].Clima = "Ensolarado")
                     => /\ sims[1].routes = routes_opt
                        /\ own[k].HoraChegada <= PlannedArrival(data, r, k) * 100
                        /\ PlannedArrival(data, r, k) <= data.time_windows[own[k].Para][2]
                        /\ own[k].CustoHoraExtra = 0

\* a planned route has been driven in sunny weather: the first stop reached
\* before its window opens, the second stop on time, the depot after the shift
C27_Witness ==
    /\ solution.found /\ sims[1].pc = "returned"
    /\ AllSunny(sims[1].logs)
    /\ Len(sims[1].logs) = 3
    /\ sims[1].logs[1].HoraChegada < data.time_windows[sims[1].logs[1].Para][1] * 100
    /\ sims[1].logs[2].Para # data.depot
    /\ sims[1].logs[3].CustoHoraExtra > 0

\* the realized times of the first k logged legs of a vehicle, in hundredths
RECURSIVE RealizedSum(_, _)
RealizedSum(own, k) ==
    IF k = 0 THEN 0 ELSE own[k].TempoReal + RealizedSum(own, k - 1)

\* C28: every vehicle leaves at clock 0 and never waits for a window to open:
\* the arrival logged for the j-th leg of a vehicle is the sum of the realized
\* times of its legs 1..j plus (j - 1) x service_time, whatever the other
\* vehicles drive and whatever the stop's earliest bound.
C28_VehicleIndependence ==
    \A s \in Sims : \A veh \in DOMAIN sims[s].routes :
        LET own == EventsLogged(sims[s].logs, veh)
        IN \A j \in DOMAIN own :
              own[j].HoraChegada =
                  RealizedSum(own, j) + (j - 1) * data.service_time * 100

\* two vehicles have driven their routes; one reached customer 1 before its
\* window opened, and not every leg ran in sunny weather
C28_Witness ==
    /\ sims[1].pc = "returned"
    /\ Len(sims[1].routes) = 2
    /\ \A veh \in DOMAIN sims[1].routes : sims[1].routes[veh] # <<>>
    /\ ~AllSunny(sims[1].logs)
    /\ \E i \in DOMAIN sims[1].logs :
          /\ sims[1].logs[i].Para = 1
          /\ sims[1].logs[i].HoraChegada < data.time_windows[1][1] * 100

\* the stops solve_greedy has placed: those of the closed routes and, while a
\* route is under construction, those of that route
PlacedStops ==
    LET open == IF g_pc = "scan" THEN route ELSE <<>>
    IN [set |-> UNION {Range(routes[i]) : i \in DOMAIN routes} \cup Range(open),
        count |-> SeqSum([i \in DOMAIN routes |-> Len(routes[i])]) + Len(open)]

\* C29: at every step of solve_greedy the placed stops and the unvisited set are
\* disjoint, together they are all the customers, and no customer is placed
\* twice; when solve_greedy returns, every customer is on exactly one route and
\* no returned route is empty.
C29_GreedyPartition ==
    /\ g_pc # "idle" =>
          /\ PlacedStops.set \cap unvisited = {}
          /\ PlacedStops.set \cup unvisited = Locs \ {data.depot}
          /\ PlacedStops.count = Cardinality(PlacedStops.set)
    /\ g_pc = "done" =>
          /\ \A c \in Locs \ {data.depot} : Cardinality(PlacesOf(c)) = 1
          /\ \A i \in DOMAIN routes : routes[i] # <<>>

\* solve_greedy has returned two routes of one customer each, the vehicle
\* capacity admitting one customer only
C29_Witness ==
    /\ g_pc = "done"
    /\ Len(routes) = 2
    /\ routes[1] = <<1>>
    /\ data.vehicle_capacities[1] = 1
    /\ unvisited = {}

====
